---- MODULE Spec2Model ----
(***************************************************************************)
(* Model of the term quote generator: quote_generator.py (workbook ->      *)
(* document) and app.py (the Flask request handlers that call it).         *)
(*                                                                         *)
(* Texts are TLA+ strings; paths are sequences of tokens in which "/" and  *)
(* "." are tokens of their own, so that os.path.basename and               *)
(* os.path.splitext are computed, not assumed.                             *)
(*                                                                         *)
(* A worksheet cell, as stored in an .xlsx file, is blank, a number or a   *)
(* text.  pandas turns a sheet into a DataFrame with one dtype per column  *)
(* (int64, float64, object); a blank cell becomes NaN.  Numbers of the     *)
(* model are whole numbers; header cells are distinct non-blank texts and  *)
(* no data row is entirely blank.                                          *)
(***************************************************************************)
EXTENDS Integers, Sequences, FiniteSets, TLC

\* Most data rows of a worksheet of the inputs.
MaxRows == 2
\* Number of concurrent requests of the web application.
MaxReqs == 2

(***************************************************************************)
(* Worksheet cells (file content) and pandas values.                       *)
(***************************************************************************)
Blank == [t |-> "blank", n |-> 0, s |-> ""]
Num(n) == [t |-> "num", n |-> n, s |-> ""]
Txt(s) == [t |-> "str", n |-> 0, s |-> s]

NaN == [t |-> "nan", n |-> 0, s |-> ""]
IntV(n) == [t |-> "int", n |-> n, s |-> ""]
FloatV(n) == [t |-> "float", n |-> n, s |-> ""]
StrV(s) == [t |-> "str", n |-> 0, s |-> s]

\* str(value), as Python prints an int, a whole float, NaN and a str.
Str(v) ==
    CASE v.t = "int" -> ToString(v.n)
      [] v.t = "float" -> ToString(v.n) \o ".0"
      [] v.t = "nan" -> "nan"
      [] OTHER -> v.s

SheetNames == {"Client Details", "Premiums", "Final Notes"}

\* A worksheet: its header row and its data rows (each as long as the header).
Sheet(hdr, rows) == [hdr |-> hdr, rows |-> rows]
BlankSheet == Sheet(<<>>, <<>>)

\* An optional value: <<>> (None, no file) or <<v>>.
None == <<>>
Some(v) == <<v>>

(***************************************************************************)
(* pandas: ExcelFile.parse, DataFrame.empty, .loc, .iloc, iterrows, get.   *)
(***************************************************************************)
\* The dtype pandas infers for a column from its data cells.
ColumnDtype(cells) ==
    IF \E i \in 1..Len(cells) : cells[i].t = "str" THEN "object"
    ELSE IF Len(cells) > 0 /\ \A i \in 1..Len(cells) : cells[i].t = "num" THEN "int64"
    ELSE IF Len(cells) > 0 THEN "float64"
    ELSE "object"

ConvertCell(dtype, c) ==
    CASE c.t = "blank" -> NaN
      [] c.t = "str" -> StrV(c.s)
      [] OTHER -> IF dtype = "float64" THEN FloatV(c.n) ELSE IntV(c.n)

\* xls.parse(name): the first row names the columns, the rest are the rows.
ParseSheet(raw) ==
    LET nr == Len(raw.rows)
        nc == Len(raw.hdr)
        dt == [j \in 1..nc |-> ColumnDtype([i \in 1..nr |-> raw.rows[i][j]])]
    IN  [columns |-> raw.hdr,
         dtypes |-> dt,
         rows |-> [i \in 1..nr |-> [j \in 1..nc |-> ConvertCell(dt[j], raw.rows[i][j])]]]

\* read_sheets(path): one DataFrame per sheet of the workbook; a sheet the
\* workbook does not hold is not a key (sheets.get(name, None) is None).
read_sheets(wb) ==
    [name \in SheetNames |-> IF wb[name] = None THEN None ELSE Some(ParseSheet(wb[name][1]))]

\* DataFrame.empty: no rows or no columns.
DfEmpty(df) == Len(df.columns) = 0 \/ Len(df.rows) = 0

HasCol(df, col) == \E j \in 1..Len(df.columns) : df.columns[j] = col
ColIndex(df, col) == CHOOSE j \in 1..Len(df.columns) : df.columns[j] = col

\* client_df.loc[0, key]: the scalar, of the column's dtype.
Loc0(df, key) == df.rows[1][ColIndex(df, key)]

\* df.iloc[i] and iterrows(): the row as one Series, whose single dtype is the
\* common one: a row of int64 and float64 columns is a float64 row.
RowSeries(df, i) ==
    LET nc == Len(df.columns)
        numeric == \A j \in 1..nc : df.dtypes[j] \in {"int64", "float64"}
        anyfloat == \E j \in 1..nc : df.dtypes[j] = "float64"
    IN  IF numeric /\ anyfloat
        THEN [j \in 1..nc |-> IF df.rows[i][j].t = "int"
                               THEN FloatV(df.rows[i][j].n) ELSE df.rows[i][j]]
        ELSE df.rows[i]

\* Series.get(col, default)
SeriesGet(df, series, col, default) ==
    IF HasCol(df, col) THEN series[ColIndex(df, col)] ELSE default

(***************************************************************************)
(* python-docx: a document is the sequence of its blocks.                  *)
(***************************************************************************)
Para(text) == [kind |-> "para", text |-> text, rows |-> <<>>, borders |-> FALSE]
Heading(text) == [kind |-> "heading", text |-> text, rows |-> <<>>, borders |-> FALSE]
Table(rows) == [kind |-> "table", text |-> "", rows |-> rows, borders |-> FALSE]

\* _add_table_borders: single-line borders on the four sides and inside.
add_table_borders(table) == [table EXCEPT !.borders = TRUE]

TITLE == "Final Incremint Dual-Pay Term Quote"
\* The line of the generation time; the clock's reading is not modelled.
DateLine == "Date: %d-%m-%Y %H:%M\n"

write_header(document, title_text, client_name) ==
    document
      \o << Para("Incremint Edge Pvt Ltd\n" \o title_text \o "\n") >>
      \o (IF client_name # "" THEN << Para("Client: " \o client_name \o "\n") >> ELSE <<>>)
      \o << Para(DateLine) >>

add_client_details_table(document, client_df) ==
    LET first == RowSeries(client_df, 1)
        body == [j \in 1..Len(client_df.columns) |->
                   << client_df.columns[j],
                      Str(SeriesGet(client_df, first, client_df.columns[j], StrV(""))) >>]
    IN  document \o << Heading("Client Details"),
                       add_table_borders(Table(<< <<"Field", "Value">> >> \o body)) >>

CoverKeys == <<"Sum Assured", "Policy Term", "Cover Till Age", "PPT">>

\* cover_info: the keys that are columns of a non-empty "Client Details".
CoverInfo(client) ==
    [k \in 1..Len(CoverKeys) |->
        IF client # None /\ ~DfEmpty(client[1]) /\ HasCol(client[1], CoverKeys[k])
        THEN Some(Loc0(client[1], CoverKeys[k])) ELSE None]

\* str(cover_info.get(key, ""))
CoverGet(cover_info, k) == IF cover_info[k] = None THEN "" ELSE Str(cover_info[k][1])

add_cover_details_table(document, cover_info) ==
    document \o << Heading("Cover Details"),
                   add_table_borders(Table(<< CoverKeys,
                                              [k \in 1..Len(CoverKeys) |-> CoverGet(cover_info, k)] >>)) >>

PremiumCols == <<" ", "Company", "Plan", "Regular Premium", "10 Pay Premium", "Notes">>

\* The two lookups the other way round: "10 Pay" first.
TenPayValue_swapped(df, row) ==
    SeriesGet(df, row, "10 Pay", SeriesGet(df, row, "10 Pay Premium", StrV("")))

\* row.get("10 Pay Premium", row.get("10 Pay", ""))
TenPayValue(df, row) ==
    SeriesGet(df, row, "10 Pay Premium", SeriesGet(df, row, "10 Pay", StrV("")))

PremiumRow(df, row) ==
    << "",
       Str(SeriesGet(df, row, "Insurance Company", StrV(""))),
       Str(SeriesGet(df, row, "Plan Name", StrV(""))),
       Str(SeriesGet(df, row, "Regular Premium", StrV(""))),
       Str(TenPayValue(df, row)),
       Str(SeriesGet(df, row, "Special Notes", StrV(""))) >>

\* A builder that leaves the section out when the table has no rows.
add_premium_comparison_skip_empty(document, premiums_df) ==
    IF Len(premiums_df.rows) = 0 THEN document
    ELSE document \o << Heading("Premium Comparison (Regular/10 Pay)"),
                       add_table_borders(Table(<< PremiumCols >> \o
                           [i \in 1..Len(premiums_df.rows) |->
                               PremiumRow(premiums_df, RowSeries(premiums_df, i))])) >>

add_premium_comparison(document, premiums_df) ==
    LET body == [i \in 1..Len(premiums_df.rows) |-> PremiumRow(premiums_df, RowSeries(premiums_df, i))]
    IN  document \o << Heading("Premium Comparison (Regular/10 Pay)"),
                       add_table_borders(Table(<< PremiumCols >> \o body)) >>

RECURSIVE JoinSpace(_)
\* " ".join(texts)
JoinSpace(texts) ==
    IF Len(texts) = 0 THEN ""
    ELSE IF Len(texts) = 1 THEN texts[1]
    ELSE texts[1] \o " " \o JoinSpace(Tail(texts))

\* fillna("").astype(str) of one value
FillnaStr(v) == IF v.t = "nan" THEN "" ELSE Str(v)

\* The default text, shortened (the source's has a dash and a warning sign).
DefaultAdvisory == "Recommendation: 10 Pay offers quicker benefit accumulation. This is a system-generated quote."

\* notes_text of make_term_quote_from_excel
NotesText(final_notes) ==
    IF final_notes # None /\ ~DfEmpty(final_notes[1])
    THEN LET df == final_notes[1]
         IN  JoinSpace([i \in 1..Len(df.rows) |->
                          JoinSpace([j \in 1..Len(df.columns) |-> FillnaStr(df.rows[i][j])])])
    ELSE DefaultAdvisory

add_advisory_note(document, notes_text) ==
    document \o << Heading("Advisory Note"), Para(notes_text) >>

\* The heading of the source ends with a telephone sign.
ContactHeading == "Contact Now"
add_contact(document) ==
    document \o << Heading(ContactHeading),
                   Para("Agent Name: __________________\nMobile: __________________\n") >>

\* client_name of make_term_quote_from_excel
ClientName(client) ==
    IF client # None /\ ~DfEmpty(client[1]) /\ HasCol(client[1], "Client Name")
    THEN Str(Loc0(client[1], "Client Name")) ELSE ""

(***************************************************************************)
(* The steps of make_term_quote_from_excel on the document built so far.   *)
(***************************************************************************)
StepHeader(doc, sheets) == write_header(doc, TITLE, ClientName(sheets["Client Details"]))

StepClient(doc, sheets) ==
    IF sheets["Client Details"] # None /\ ~DfEmpty(sheets["Client Details"][1])
    THEN add_client_details_table(doc, sheets["Client Details"][1]) ELSE doc

\* Cover Details only when there is client data, like the Client Details table.
StepCover_if_client(doc, sheets) ==
    IF sheets["Client Details"] # None /\ ~DfEmpty(sheets["Client Details"][1])
    THEN add_cover_details_table(doc, CoverInfo(sheets["Client Details"])) ELSE doc

StepCover(doc, sheets) == add_cover_details_table(doc, CoverInfo(sheets["Client Details"]))

StepPremium(doc, sheets) ==
    IF sheets["Premiums"] # None THEN add_premium_comparison(doc, sheets["Premiums"][1]) ELSE doc

StepAdvisory(doc, sheets) == add_advisory_note(doc, NotesText(sheets["Final Notes"]))

StepContact(doc, sheets) == add_contact(doc)

\* The document of one whole call.
BuildDoc(sheets) ==
    StepContact(StepAdvisory(StepPremium(StepCover(StepClient(StepHeader(<<>>, sheets),
        sheets), sheets), sheets), sheets), sheets)

(***************************************************************************)
(* Paths: os.path.basename, os.path.splitext, os.path.join.                *)
(***************************************************************************)
\* Index of the last token equal to tok, 0 when there is none.
LastIndexOf(p, tok) ==
    IF \E i \in 1..Len(p) : p[i] = tok
    THEN CHOOSE i \in 1..Len(p) : p[i] = tok /\ \A j \in (i+1)..Len(p) : p[j] # tok
    ELSE 0

basename(p) == SubSeq(p, LastIndexOf(p, "/") + 1, Len(p))

\* os.path.splitext(name)[0]: cut at the last dot, unless only dots lead to it.
splitext_root(name) ==
    LET d == LastIndexOf(name, ".")
    IN  IF d > 0 /\ \E i \in 1..(d - 1) : name[i] # "." THEN SubSeq(name, 1, d - 1) ELSE name

\* The name with its extension kept.
OutPath_keep_extension(excel_path) ==
    <<"/tmp", "/">> \o basename(excel_path) \o <<"_term_quote_final", ".", "docx">>

\* out_path of make_term_quote_from_excel
OutPath(excel_path) ==
    <<"/tmp", "/">> \o splitext_root(basename(excel_path)) \o <<"_term_quote_final", ".", "docx">>

(***************************************************************************)
(* app.py: what the handlers read and write besides the builder's call.    *)
(***************************************************************************)
\* DataFrame.to_excel(writer, sheet_name, index=False): the cell of each value.
ExcelCell(v) ==
    CASE v.t = "nan" -> Blank
      [] v.t = "str" -> Txt(v.s)
      [] OTHER -> Num(v.n)

to_excel(df) ==
    Sheet(df.columns,
          [i \in 1..Len(df.rows) |-> [j \in 1..Len(df.columns) |-> ExcelCell(df.rows[i][j])]])

\* The Sheets API returns every cell of a range as its formatted text, and
\* nothing for a blank one.
ApiCell(c) == IF c.t = "num" THEN Txt(ToString(c.n)) ELSE c

\* read_sheet_to_df(spreadsheet_id, sheet_name) on a tab the spreadsheet holds:
\* no values give DataFrame(), else values[0] names the columns.
read_sheet_to_df(tab) ==
    ParseSheet(Sheet(tab.hdr,
                     [i \in 1..Len(tab.rows) |-> [j \in 1..Len(tab.hdr) |-> ApiCell(tab.rows[i][j])]]))

\* The workbook download_and_process_spreadsheet writes (app.py 75-83).
SheetIdCombined(client_df, prem_df) ==
    [name \in SheetNames |->
        CASE name = "Client Details" ->
                Some(IF ~DfEmpty(client_df) THEN to_excel(client_df) ELSE BlankSheet)
          [] name = "Premiums" ->
                Some(IF ~DfEmpty(prem_df) THEN to_excel(prem_df) ELSE BlankSheet)
          [] OTHER -> None]

\* pd.read_excel(path): the first sheet of the workbook.  An uploaded client or
\* premium file holds one sheet.
read_excel(wb) == ParseSheet(wb[CHOOSE name \in SheetNames : wb[name] # None][1])

\* The workbook index() writes from the two uploaded files (app.py 120-122).
TwoFileCombined(client_wb, premium_wb) ==
    [name \in SheetNames |->
        CASE name = "Client Details" -> Some(to_excel(read_excel(client_wb)))
          [] name = "Premiums" -> Some(to_excel(read_excel(premium_wb)))
          [] OTHER -> None]

\* A workbook that holds the one sheet `name` of wb.
OnlySheet(wb, name) == [n \in SheetNames |-> IF n = name THEN wb[n] ELSE None]

UPLOAD_FOLDER == "uploads"
UploadedCombinedPath == <<UPLOAD_FOLDER, "/", "uploaded_combined", ".", "xlsx">>
ClientPath == <<UPLOAD_FOLDER, "/", "client", ".", "xlsx">>
PremiumPath == <<UPLOAD_FOLDER, "/", "premium", ".", "xlsx">>
CombinedInputPath == <<UPLOAD_FOLDER, "/", "combined_input", ".", "xlsx">>
\* tempfile.gettempdir() is /tmp
SheetIdPath(spreadsheet_id) == <<"/tmp", "/", "combined_" \o spreadsheet_id, ".", "xlsx">>
SamplePath == <<"/mnt/data", "/", "Term_Quote_Input_Template_Dual_Pay", ".", "xlsx">>

InsufficientMsg == "Both 'Client Details' and 'Premiums' are empty or missing."

(***************************************************************************)
(* The inputs the specifications draw from.                                *)
(***************************************************************************)
Cells == {Blank, Num(5), Txt("x")}

\* The data rows of a sheet of nc columns: at most MaxRows, none all blank.
RowsOver(nc) ==
    {rows \in UNION {[1..n -> [1..nc -> Cells]] : n \in 0..MaxRows} :
        \A i \in 1..Len(rows) : \E j \in 1..nc : rows[i][j] # Blank}

TablesOver(headers) == {Some(Sheet(h, rows)) : h \in headers, rows \in RowsOver(2)}

ClientHeaders == {<<"Client Name", "Sum Assured">>, <<"PPT", "Age">>}
PremiumHeaders == {<<"Insurance Company", "10 Pay">>, <<"10 Pay Premium", "10 Pay">>,
                   <<"Regular Premium", "Special Notes">>, <<"Plan Name", "10 Pay Premium">>}
NotesHeaders == {<<"Note", "More">>}

OneClient == Some(Sheet(<<"Client Name", "Sum Assured">>, << <<Txt("x"), Num(5)>> >>))
OnePremium == Some(Sheet(<<"Insurance Company", "10 Pay">>, << <<Txt("x"), Num(5)>> >>))
OneNote == Some(Sheet(<<"Note">>, << <<Txt("x")>> >>))

AnyClient == {None, Some(BlankSheet)} \cup TablesOver(ClientHeaders)
AnyPremium == {None, Some(BlankSheet)} \cup TablesOver(PremiumHeaders)
AnyNotes == {None, Some(BlankSheet), OneNote} \cup TablesOver(NotesHeaders)
FewClient == {None, Some(BlankSheet), OneClient}
FewPremium == {None, Some(BlankSheet), OnePremium}
FewNotes == {None, OneNote}

Workbook(c, p, n) ==
    [name \in SheetNames |->
        CASE name = "Client Details" -> c [] name = "Premiums" -> p [] OTHER -> n]

\* Workbooks that vary one sheet widely and the other two a little.
BuildWorkbooks ==
    {Workbook(c, p, n) : c \in AnyClient, p \in FewPremium, n \in FewNotes}
      \cup {Workbook(c, p, n) : c \in FewClient, p \in AnyPremium, n \in FewNotes}
      \cup {Workbook(c, p, n) : c \in FewClient, p \in FewPremium, n \in AnyNotes}

FewWorkbooks == {Workbook(c, p, n) : c \in FewClient, p \in FewPremium, n \in FewNotes}

\* The workbooks of concurrent requests.
AppWorkbooks ==
    {Workbook(OneClient, OnePremium, OneNote), Workbook(OneClient, Some(BlankSheet), None),
     Workbook(None, OnePremium, None), Workbook(Some(BlankSheet), Some(BlankSheet), None)}

SampleWorkbook == Workbook(OneClient, OnePremium, None)

SheetIds == {"", "input", "s1"}

Reqs == 1..MaxReqs
NoReq == [kind |-> "none", src |-> Workbook(None, None, None), sid |-> ""]
NoResp == [code |-> 0, body |-> None, error |-> ""]

\* The requests a client can send, with the workbooks `wbs`.
Requests(wbs) ==
    {[kind |-> "single", src |-> w, sid |-> ""] : w \in wbs}
      \cup {[kind |-> "two", src |-> w, sid |-> ""] :
              w \in {v \in wbs : v["Client Details"] # None /\ v["Premiums"] # None}}
      \cup {[kind |-> "sheetid", src |-> w, sid |-> i] : w \in wbs, i \in SheetIds}
      \cup {[kind |-> "local", src |-> Workbook(None, None, None), sid |-> ""]}

AppXlsxPaths ==
    {UploadedCombinedPath, ClientPath, PremiumPath, CombinedInputPath, SamplePath}
      \cup {SheetIdPath(i) : i \in SheetIds \ {""}}

VARIABLES
    xlsx,        \* the workbook files: path -> None or the workbook
    docx,        \* the document files: path -> None or the document
    req,         \* each request: its kind, its workbook (upload or spreadsheet), its id
    pc,          \* each handler's position
    excel_path,  \* the builder's argument
    sheets,      \* the builder's sheets
    doc,         \* the builder's document, built so far
    resp,        \* the response sent
    wrote,       \* whether the request's call has saved a document
    recent       \* direct calls: the last call of each input path, oldest first

vars == <<xlsx, docx, req, pc, excel_path, sheets, doc, resp, wrote, recent>>

\* A directory without files, the file at a path, a file written.
NoFiles == [p \in {} |-> None]
FileAt(files, p) == IF p \in DOMAIN files THEN files[p] ELSE None
WriteFile(files, p, content) ==
    [q \in DOMAIN files \cup {p} |-> IF q = p THEN Some(content) ELSE files[q]]

InitFiles(paths) ==
    /\ xlsx \in {[p \in paths |-> IF p = SamplePath /\ s THEN Some(SampleWorkbook) ELSE None] :
                    s \in BOOLEAN}
    /\ docx = NoFiles

InitLocals ==
    /\ excel_path = [r \in Reqs |-> <<>>]
    /\ sheets = [r \in Reqs |-> None]
    /\ doc = [r \in Reqs |-> <<>>]
    /\ resp = [r \in Reqs |-> NoResp]
    /\ wrote = [r \in Reqs |-> FALSE]
    /\ recent = <<>>

\* The web application serving MaxReqs requests at once.
Init ==
    /\ InitFiles(AppXlsxPaths)
    /\ req \in [Reqs -> Requests(AppWorkbooks)]
    /\ pc = [r \in Reqs |-> "start"]
    /\ InitLocals

\* One request alone, over the wide inputs.
InitBuild ==
    /\ InitFiles(AppXlsxPaths)
    /\ req \in {[r \in Reqs |-> IF r = 1 THEN q ELSE NoReq] :
                  q \in Requests(FewWorkbooks)
                          \cup {[kind |-> "single", src |-> w, sid |-> ""] : w \in BuildWorkbooks}}
    /\ req[1].kind # "local" => xlsx[SamplePath] # None
    /\ pc = [r \in Reqs |-> IF r = 1 THEN "start" ELSE "done"]
    /\ InitLocals

Respond(r, code, body, error) ==
    /\ resp' = [resp EXCEPT ![r] = [code |-> code, body |-> body, error |-> error]]
    /\ pc' = [pc EXCEPT ![r] = "done"]

Call(r, path) ==
    /\ excel_path' = [excel_path EXCEPT ![r] = path]
    /\ pc' = [pc EXCEPT ![r] = "read"]

(***************************************************************************)
(* index(): the single combined upload (app.py 103-110).                   *)
(***************************************************************************)
UploadSingle(r) ==
    /\ pc[r] = "start" /\ req[r].kind = "single"
    /\ xlsx' = [xlsx EXCEPT ![UploadedCombinedPath] = Some(req[r].src)]
    /\ Call(r, UploadedCombinedPath)
    /\ UNCHANGED <<docx, req, sheets, doc, resp, wrote, recent>>

(***************************************************************************)
(* index(): the two uploads (app.py 113-126).                              *)
(***************************************************************************)
SaveTwo(r) ==
    /\ pc[r] = "start" /\ req[r].kind = "two"
    /\ xlsx' = [xlsx EXCEPT ![ClientPath] = Some(OnlySheet(req[r].src, "Client Details")),
                            ![PremiumPath] = Some(OnlySheet(req[r].src, "Premiums"))]
    /\ pc' = [pc EXCEPT ![r] = "combine"]
    /\ UNCHANGED <<docx, req, excel_path, sheets, doc, resp, wrote, recent>>

Combine(r) ==
    /\ pc[r] = "combine"
    /\ xlsx' = [xlsx EXCEPT ![CombinedInputPath] =
                    Some(TwoFileCombined(xlsx[ClientPath][1], xlsx[PremiumPath][1]))]
    /\ Call(r, CombinedInputPath)
    /\ UNCHANGED <<docx, req, sheets, doc, resp, wrote, recent>>

(***************************************************************************)
(* process_by_sheetid() and download_and_process_spreadsheet()             *)
(* (app.py 135-158, 62-86); SHEET_SECRET is not set.                       *)
(***************************************************************************)
SheetIdMissing(r) ==
    /\ pc[r] = "start" /\ req[r].kind = "sheetid" /\ req[r].sid = ""
    /\ Respond(r, 400, None, "missing spreadsheet_id")
    /\ UNCHANGED <<xlsx, docx, req, excel_path, sheets, doc, wrote, recent>>

\* The API refuses the range of a tab the spreadsheet does not hold.
SheetIdApiError(r) ==
    /\ pc[r] = "start" /\ req[r].kind = "sheetid" /\ req[r].sid # ""
    /\ req[r].src["Client Details"] = None \/ req[r].src["Premiums"] = None
    /\ Respond(r, 500, None, "Error reading sheet")
    /\ UNCHANGED <<xlsx, docx, req, excel_path, sheets, doc, wrote, recent>>

SheetIdInsufficient(r) ==
    /\ pc[r] = "start" /\ req[r].kind = "sheetid" /\ req[r].sid # ""
    /\ req[r].src["Client Details"] # None /\ req[r].src["Premiums"] # None
    /\ DfEmpty(read_sheet_to_df(req[r].src["Client Details"][1]))
    /\ DfEmpty(read_sheet_to_df(req[r].src["Premiums"][1]))
    /\ Respond(r, 500, None, InsufficientMsg)
    /\ UNCHANGED <<xlsx, docx, req, excel_path, sheets, doc, wrote, recent>>

SheetIdCombine(r) ==
    /\ pc[r] = "start" /\ req[r].kind = "sheetid" /\ req[r].sid # ""
    /\ req[r].src["Client Details"] # None /\ req[r].src["Premiums"] # None
    /\ LET client_df == read_sheet_to_df(req[r].src["Client Details"][1])
           prem_df == read_sheet_to_df(req[r].src["Premiums"][1])
       IN  /\ ~(DfEmpty(client_df) /\ DfEmpty(prem_df))
           /\ xlsx' = [xlsx EXCEPT ![SheetIdPath(req[r].sid)] =
                           Some(SheetIdCombined(client_df, prem_df))]
    /\ Call(r, SheetIdPath(req[r].sid))
    /\ UNCHANGED <<docx, req, sheets, doc, resp, wrote, recent>>

(***************************************************************************)
(* local_test() (app.py 162-175).                                          *)
(***************************************************************************)
LocalMissing(r) ==
    /\ pc[r] = "start" /\ req[r].kind = "local"
    /\ xlsx[SamplePath] = None
    /\ Respond(r, 404, None, "Sample not found")
    /\ UNCHANGED <<xlsx, docx, req, excel_path, sheets, doc, wrote, recent>>

LocalCall(r) ==
    /\ pc[r] = "start" /\ req[r].kind = "local"
    /\ xlsx[SamplePath] # None
    /\ Call(r, SamplePath)
    /\ UNCHANGED <<xlsx, docx, req, sheets, doc, resp, wrote, recent>>

(***************************************************************************)
(* make_term_quote_from_excel(excel_path), statement by statement          *)
(* (quote_generator.py 101-155).  The file it reads is one its caller has  *)
(* just written or found, and every workbook of the model parses.          *)
(***************************************************************************)
ReadSheets(r) ==
    /\ pc[r] = "read"
    /\ xlsx[excel_path[r]] # None
    /\ sheets' = [sheets EXCEPT ![r] = Some(read_sheets(xlsx[excel_path[r]][1]))]
    /\ doc' = [doc EXCEPT ![r] = <<>>]
    /\ pc' = [pc EXCEPT ![r] = "header"]
    /\ UNCHANGED <<xlsx, docx, req, excel_path, resp, wrote, recent>>

Build(r, at, step, next) ==
    /\ pc[r] = at
    /\ doc' = [doc EXCEPT ![r] = step]
    /\ pc' = [pc EXCEPT ![r] = next]
    /\ UNCHANGED <<xlsx, docx, req, excel_path, sheets, resp, wrote, recent>>

Header(r) == Build(r, "header", StepHeader(doc[r], sheets[r][1]), "client")
Client(r) == Build(r, "client", StepClient(doc[r], sheets[r][1]), "cover")
Cover(r) == Build(r, "cover", StepCover(doc[r], sheets[r][1]), "premium")
Premium(r) == Build(r, "premium", StepPremium(doc[r], sheets[r][1]), "advisory")
Advisory(r) == Build(r, "advisory", StepAdvisory(doc[r], sheets[r][1]), "contact")
Contact(r) == Build(r, "contact", StepContact(doc[r], sheets[r][1]), "save")

Save(r) ==
    /\ pc[r] = "save"
    /\ docx' = WriteFile(docx, OutPath(excel_path[r]), doc[r])
    /\ wrote' = [wrote EXCEPT ![r] = TRUE]
    /\ pc' = [pc EXCEPT ![r] = "send"]
    /\ UNCHANGED <<xlsx, req, excel_path, sheets, doc, resp, recent>>

\* send_file(out, as_attachment=True): the file as it is when it is sent.
SendFile(r) ==
    /\ pc[r] = "send"
    /\ Respond(r, 200, FileAt(docx, OutPath(excel_path[r])), "")
    /\ UNCHANGED <<xlsx, docx, req, excel_path, sheets, doc, wrote, recent>>

Next ==
    \E r \in Reqs :
        \/ UploadSingle(r)
        \/ SaveTwo(r)
        \/ Combine(r)
        \/ SheetIdMissing(r)
        \/ SheetIdApiError(r)
        \/ SheetIdInsufficient(r)
        \/ SheetIdCombine(r)
        \/ LocalMissing(r)
        \/ LocalCall(r)
        \/ ReadSheets(r)
        \/ Header(r)
        \/ Client(r)
        \/ Cover(r)
        \/ Premium(r)
        \/ Advisory(r)
        \/ Contact(r)
        \/ Save(r)
        \/ SendFile(r)

(***************************************************************************)
(* make_term_quote_from_excel called directly, one call after another, on  *)
(* workbooks its caller puts at paths of its choice.                       *)
(***************************************************************************)
NamingPaths ==
    {<<"uploads", "/", "q", ".", "xlsx">>, <<"uploads", "/", "q", ".", "xls">>,
     <<"data", "/", "q", ".", "xlsx">>, <<"uploads", "/", "q", ".", "v2", ".", "xlsx">>}
NamingWorkbooks == {Workbook(OneClient, None, None), Workbook(None, OnePremium, None)}

InitNaming ==
    /\ xlsx \in [NamingPaths -> {Some(w) : w \in NamingWorkbooks}]
    /\ docx = NoFiles
    /\ req = [r \in Reqs |-> NoReq]
    /\ pc = [r \in Reqs |-> "done"]
    /\ InitLocals

PutWorkbook(p, w) ==
    /\ xlsx[p] # Some(w)
    /\ xlsx' = [xlsx EXCEPT ![p] = Some(w)]
    /\ UNCHANGED <<docx, req, pc, excel_path, sheets, doc, resp, wrote, recent>>

MakeTermQuote(p) ==
    LET d == BuildDoc(read_sheets(xlsx[p][1]))
        Other(e) == e.path # p
    IN  /\ docx' = WriteFile(docx, OutPath(p), d)
        /\ recent' = Append(SelectSeq(recent, Other), [path |-> p, doc |-> d])
        /\ UNCHANGED <<xlsx, req, pc, excel_path, sheets, doc, resp, wrote>>

NextNaming ==
    \E p \in NamingPaths :
        \/ MakeTermQuote(p)
        \/ \E w \in NamingWorkbooks : PutWorkbook(p, w)

Spec == Init /\ [][Next]_vars
SpecNaming == InitNaming /\ [][NextNaming]_vars
SpecBuild == InitBuild /\ [][Next]_vars
(***************************************************************************)
(* What the properties below speak of.                                     *)
(***************************************************************************)
PremiumHeading == "Premium Comparison (Regular/10 Pay)"
HeaderText == "Incremint Edge Pvt Ltd\n" \o TITLE \o "\n"
SectionOrder ==
    <<HeaderText, "Client Details", "Cover Details", PremiumHeading, "Advisory Note", ContactHeading>>

HeadingsAt(d, text) == {i \in 1..Len(d) : d[i].kind = "heading" /\ d[i].text = text}
\* The block that follows the one heading `text` of d.
BlockAfter(d, text) == d[(CHOOSE i \in HeadingsAt(d, text) : TRUE) + 1]
HasTableAfter(d, text) ==
    /\ Cardinality(HeadingsAt(d, text)) = 1
    /\ (CHOOSE i \in HeadingsAt(d, text) : TRUE) < Len(d)
    /\ BlockAfter(d, text).kind = "table"

\* The builder of request r has passed the statements of a section.
DocDone(r) == pc[r] \in {"save", "send"} \/ (pc[r] = "done" /\ wrote[r])
PastPremium(r) == pc[r] \in {"advisory", "contact"} \/ DocDone(r)
PastCover(r) == pc[r] = "premium" \/ PastPremium(r)
PastClient(r) == pc[r] = "cover" \/ PastCover(r)

\* The sheet `name` of the workbook the builder of r was called on.
InputSheet(r, name) == xlsx[excel_path[r]][1][name]

\* Where the builder puts the text of each column it looks up.
PremiumCellOf ==
    {<<"Insurance Company", 2>>, <<"Plan Name", 3>>, <<"Regular Premium", 4>>,
     <<"10 Pay Premium", 5>>, <<"Special Notes", 6>>}

(***************************************************************************)
(* C1: for a workbook whose "Premiums" sheet has N data rows (N >= 0, a    *)
(* header-only or blank sheet included), the document holds one Premium    *)
(* Comparison table of N+1 rows: the header, then one row per input row in *)
(* input order; every row has 6 cells and the first is the blank logo      *)
(* placeholder.                                                            *)
(***************************************************************************)
C1_PremiumTableShape ==
    \A r \in Reqs :
        (PastPremium(r) /\ InputSheet(r, "Premiums") # None) =>
            LET raw == InputSheet(r, "Premiums")[1]
                N == Len(raw.rows)
            IN  /\ HasTableAfter(doc[r], PremiumHeading)
                /\ LET t == BlockAfter(doc[r], PremiumHeading)
                   IN  /\ Len(t.rows) = N + 1
                       /\ \A k \in 1..(N + 1) : Len(t.rows[k]) = 6
                       /\ t.rows[1] = PremiumCols
                       /\ \A k \in 1..N :
                            /\ t.rows[k + 1][1] = ""
                            /\ \A m \in PremiumCellOf : \A j \in 1..Len(raw.hdr) :
                                 (raw.hdr[j] = m[1] /\ raw.rows[k][j].t = "str")
                                    => t.rows[k + 1][m[2]] = raw.rows[k][j].s

C1_Witness ==
    \E r \in Reqs :
        /\ pc[r] = "done" /\ wrote[r]
        /\ InputSheet(r, "Premiums") # None
        /\ Len(InputSheet(r, "Premiums")[1].rows) >= 2
        /\ HasTableAfter(doc[r], PremiumHeading)
        /\ Len(BlockAfter(doc[r], PremiumHeading).rows) = Len(InputSheet(r, "Premiums")[1].rows) + 1

(***************************************************************************)
(* C4: the 5th cell of every Premium Comparison data row is the text of    *)
(* the row's "10 Pay Premium" value when that is a column; else the text   *)
(* of the row's "10 Pay" value when that is a column; else the empty text. *)
(***************************************************************************)
C4_TenPayFallback ==
    \A r \in Reqs :
        (PastPremium(r) /\ sheets[r][1]["Premiums"] # None) =>
            LET df == sheets[r][1]["Premiums"][1]
            IN  /\ HasTableAfter(doc[r], PremiumHeading)
                /\ \A k \in 1..Len(df.rows) :
                     BlockAfter(doc[r], PremiumHeading).rows[k + 1][5] =
                        IF HasCol(df, "10 Pay Premium")
                        THEN Str(RowSeries(df, k)[ColIndex(df, "10 Pay Premium")])
                        ELSE IF HasCol(df, "10 Pay")
                        THEN Str(RowSeries(df, k)[ColIndex(df, "10 Pay")])
                        ELSE ""

C4_Witness ==
    \E r \in Reqs :
        /\ pc[r] = "done" /\ wrote[r]
        /\ InputSheet(r, "Premiums") # None
        /\ LET raw == InputSheet(r, "Premiums")[1]
           IN  /\ raw.hdr = <<"Insurance Company", "10 Pay">>
               /\ Len(raw.rows) = 2
               /\ raw.rows[2][2] = Txt("x")
               /\ BlockAfter(doc[r], PremiumHeading).rows[3][5] = "x"

(***************************************************************************)
(* C9: the sections of every document, also of one under construction,     *)
(* come in the order header, Client Details, Cover Details, Premium        *)
(* Comparison, Advisory Note, Contact, each at most once; a finished       *)
(* document has the header, Cover Details, Advisory Note and Contact       *)
(* exactly once and ends with the Contact section; only finished documents *)
(* are saved.                                                              *)
(***************************************************************************)
IsMark(b) == b.kind = "heading" \/ (b.kind = "para" /\ b.text = HeaderText)
Rank(b) ==
    IF \E k \in 1..Len(SectionOrder) : SectionOrder[k] = b.text
    THEN CHOOSE k \in 1..Len(SectionOrder) : SectionOrder[k] = b.text ELSE 0
Ordered(d) ==
    /\ \A i \in 1..Len(d) : IsMark(d[i]) => Rank(d[i]) > 0
    /\ \A i, j \in 1..Len(d) : (i < j /\ IsMark(d[i]) /\ IsMark(d[j])) => Rank(d[i]) < Rank(d[j])
Finished(d) ==
    /\ \A k \in {1, 3, 5, 6} : Cardinality({i \in 1..Len(d) : IsMark(d[i]) /\ Rank(d[i]) = k}) = 1
    /\ Len(d) >= 2
    /\ d[Len(d) - 1] = Heading(ContactHeading)
    /\ d[Len(d)].kind = "para"

\* C9: sections in the fixed order; finished documents have the four fixed
\* sections once and end with Contact; only finished documents are saved.
C9_SectionOrder ==
    /\ \A r \in Reqs : Ordered(doc[r]) /\ (DocDone(r) => Finished(doc[r]))
    /\ \A p \in DOMAIN docx : docx[p] # None => (Ordered(docx[p][1]) /\ Finished(docx[p][1]))

C9_Witness ==
    \E p \in DOMAIN docx :
        /\ docx[p] # None
        /\ \A k \in 1..Len(SectionOrder) :
             \E i \in 1..Len(docx[p][1]) : IsMark(docx[p][1][i]) /\ Rank(docx[p][1][i]) = k
(***************************************************************************)
(* The tables a request supplies, as its handler first reads them.         *)
(***************************************************************************)
SourceDf(r, name) ==
    CASE req[r].kind = "single" -> read_sheets(req[r].src)[name]
      [] req[r].kind = "two" ->
            IF name = "Final Notes" THEN None ELSE Some(read_excel(OnlySheet(req[r].src, name)))
      [] req[r].kind = "sheetid" ->
            IF req[r].src[name] = None THEN None ELSE Some(read_sheet_to_df(req[r].src[name][1]))
      [] req[r].kind = "local" -> read_sheets(SampleWorkbook)[name]
      [] OTHER -> None

NoData(r, name) == SourceDf(r, name) = None \/ DfEmpty(SourceDf(r, name)[1])

(***************************************************************************)
(* C2: on every entry path, a request whose "Client Details" and           *)
(* "Premiums" are both absent or empty fails, and its call saves no        *)
(* document.  (Any error response counts as the failure here.)             *)
(***************************************************************************)
C2_InsufficientDataFails ==
    \A r \in Reqs :
        (req[r].kind # "none" /\ NoData(r, "Client Details") /\ NoData(r, "Premiums")) =>
            /\ ~wrote[r]
            /\ pc[r] = "done" => (resp[r].code # 200 /\ resp[r].body = None)

(***************************************************************************)
(* C3: on every entry path, a request that supplies client data and no     *)
(* premium data (an uploaded workbook without a "Premiums" sheet; a        *)
(* spreadsheet whose "Premiums" tab has no values) is sent a document with *)
(* the Client Details table and the Cover Details table, and without the   *)
(* Premium Comparison heading and table.                                   *)
(***************************************************************************)
PremiumsMissing(r) ==
    CASE req[r].kind = "single" -> req[r].src["Premiums"] = None
      [] req[r].kind = "sheetid" -> req[r].src["Premiums"] = Some(BlankSheet)
      [] OTHER -> FALSE

\* C3: client data only: Client Details and Cover Details tables, no Premium
\* Comparison heading or table in the document sent.
C3_ClientOnlyOmitsPremiums ==
    \A r \in Reqs :
        (pc[r] = "done" /\ resp[r].code = 200 /\ resp[r].body # None
            /\ ~NoData(r, "Client Details") /\ PremiumsMissing(r)) =>
            LET d == resp[r].body[1]
            IN  /\ HasTableAfter(d, "Client Details")
                /\ HasTableAfter(d, "Cover Details")
                /\ HeadingsAt(d, PremiumHeading) = {}
                /\ \A i \in 1..Len(d) : d[i].kind = "table" => d[i].rows[1] # PremiumCols

(***************************************************************************)
(* C5: every document has one Cover Details table of two rows of 4 cells:  *)
(* the fixed header, and a row whose cell for a key is the text of the     *)
(* first "Client Details" row's value when the key is a column of a        *)
(* non-empty "Client Details" and the value is there, and the empty text   *)
(* otherwise (no such table, no rows, no such column, or a missing value). *)
(***************************************************************************)
ExpectedCover(client, key) ==
    IF client # None /\ Len(client[1].rows) >= 1
         /\ \E j \in 1..Len(client[1].hdr) : client[1].hdr[j] = key /\ client[1].rows[1][j] # Blank
    THEN Str(Loc0(ParseSheet(client[1]), key))
    ELSE ""

\* C5: the Cover Details table is the fixed header and one row of the expected
\* texts, empty where the value is missing.
C5_CoverDetailsRow ==
    \A r \in Reqs :
        PastCover(r) =>
            /\ HasTableAfter(doc[r], "Cover Details")
            /\ LET t == BlockAfter(doc[r], "Cover Details")
               IN  /\ Len(t.rows) = 2
                   /\ t.rows[1] = CoverKeys
                   /\ Len(t.rows[2]) = 4
                   /\ \A k \in 1..4 :
                        t.rows[2][k] = ExpectedCover(InputSheet(r, "Client Details"), CoverKeys[k])

(***************************************************************************)
(* C6: on every entry path, the Advisory Note paragraph of the document    *)
(* sent is the text of the source's "Final Notes" (cells of a row joined   *)
(* by spaces, rows joined by spaces, missing cells empty) when the source  *)
(* has a non-empty "Final Notes", and the default advisory text otherwise. *)
(***************************************************************************)
C6_AdvisoryFromFinalNotes ==
    \A r \in Reqs :
        (pc[r] = "done" /\ resp[r].code = 200 /\ resp[r].body # None) =>
            LET d == resp[r].body[1]
            IN  /\ Cardinality(HeadingsAt(d, "Advisory Note")) = 1
                /\ BlockAfter(d, "Advisory Note") =
                      Para(IF NoData(r, "Final Notes") THEN DefaultAdvisory
                           ELSE NotesText(SourceDf(r, "Final Notes")))

(***************************************************************************)
(* C8: whatever the interleaving of the handlers, the document sent to a   *)
(* request is the one built from that request's own workbook.              *)
(***************************************************************************)
OwnWorkbook(r) ==
    CASE req[r].kind = "single" -> req[r].src
      [] req[r].kind = "two" ->
            TwoFileCombined(OnlySheet(req[r].src, "Client Details"), OnlySheet(req[r].src, "Premiums"))
      [] req[r].kind = "sheetid" ->
            SheetIdCombined(read_sheet_to_df(req[r].src["Client Details"][1]),
                            read_sheet_to_df(req[r].src["Premiums"][1]))
      [] OTHER -> SampleWorkbook

\* C8: a document sent is the one built from the request's own workbook.
C8_RequestsIndependent ==
    \A r \in Reqs :
        (pc[r] = "done" /\ resp[r].code = 200) =>
            resp[r].body = Some(BuildDoc(read_sheets(OwnWorkbook(r))))

(***************************************************************************)
(* C10: the Client Details section is there exactly when the workbook has  *)
(* a "Client Details" sheet with a data row; its table is the Field/Value  *)
(* header and one row of 2 cells per column, in column order, the value    *)
(* being the text of the first data row's value; and a workbook that       *)
(* differs only in the data rows after the first gives the same document.  *)
(***************************************************************************)
ClientTableAsClaimed(d, client) ==
    /\ HeadingsAt(d, "Client Details") # {} <=> (client # None /\ Len(client[1].rows) >= 1)
    /\ HeadingsAt(d, "Client Details") # {} =>
          /\ HasTableAfter(d, "Client Details")
          /\ LET t == BlockAfter(d, "Client Details")
                 df == ParseSheet(client[1])
             IN  /\ Len(t.rows) = 1 + Len(client[1].hdr)
                 /\ t.rows[1] = <<"Field", "Value">>
                 /\ \A j \in 1..Len(client[1].hdr) :
                      t.rows[j + 1] = <<client[1].hdr[j], Str(RowSeries(df, 1)[j])>>

\* The sheets that differ from `sheet` at most in the data rows after the first.
SameFirstRow(sheet) ==
    {Sheet(sheet.hdr, rows) : rows \in {x \in RowsOver(Len(sheet.hdr)) :
                                           Len(x) >= 1 /\ x[1] = sheet.rows[1]}}

LaterRowsIgnored(wb) ==
    (wb["Client Details"] # None /\ Len(wb["Client Details"][1].rows) >= 1) =>
        \A alt \in SameFirstRow(wb["Client Details"][1]) :
            BuildDoc(read_sheets([wb EXCEPT !["Client Details"] = Some(alt)]))
                = BuildDoc(read_sheets(wb))

\* C10: the Client Details table is as claimed, and the data rows after the
\* first do not change the document.
C10_ClientDetailsFirstRow ==
    \A r \in Reqs :
        /\ PastClient(r) => ClientTableAsClaimed(doc[r], InputSheet(r, "Client Details"))
        /\ DocDone(r) => LaterRowsIgnored(xlsx[excel_path[r]][1])

(***************************************************************************)
(* C7: the document of a call is saved at /tmp/<stem>_term_quote_final.docx *)
(* where <stem> is the input's file name without its directory and its     *)
(* last extension.  As amended: after any sequence of calls, that file     *)
(* holds the document of the most recent call whose input has the same     *)
(* stem, and there are no other document files; so a call changes the      *)
(* output of no input of another stem, while inputs that differ only in    *)
(* directory or extension share one output file.                           *)
(***************************************************************************)
Stem(p) == splitext_root(basename(p))
ClaimedOut(p) == <<"/tmp", "/">> \o Stem(p) \o <<"_term_quote_final", ".", "docx">>

LatestSameStem(p) ==
    LET I == {i \in 1..Len(recent) : Stem(recent[i].path) = Stem(p)}
    IN  recent[CHOOSE i \in I : \A j \in I : j <= i].doc

LatestSameName(p) ==
    LET I == {i \in 1..Len(recent) : basename(recent[i].path) = basename(p)}
    IN  recent[CHOOSE i \in I : \A j \in I : j <= i].doc

\* C7 (as amended): each output file holds the document of the most recent
\* call whose input has the same stem, and there is no other document file.
C7_OutputNaming ==
    /\ \A i \in 1..Len(recent) :
          FileAt(docx, ClaimedOut(recent[i].path)) = Some(LatestSameStem(recent[i].path))
    /\ \A q \in DOMAIN docx : \E i \in 1..Len(recent) : ClaimedOut(recent[i].path) = q

C7_Witness ==
    \E i, j \in 1..Len(recent) :
        /\ i < j /\ j = Len(recent)
        /\ basename(recent[i].path) # basename(recent[j].path)
        /\ Stem(recent[i].path) = Stem(recent[j].path)
        /\ recent[i].doc # recent[j].doc
        /\ FileAt(docx, ClaimedOut(recent[i].path)) = Some(recent[j].doc)
        /\ \E k \in 1..Len(recent) : Stem(recent[k].path) # Stem(recent[j].path)

\* C7 as first stated: the file holds the document of the most recent call
\* with the same input file name; a call with another name leaves it alone.
C7_Original ==
    \A i \in 1..Len(recent) :
        FileAt(docx, ClaimedOut(recent[i].path)) = Some(LatestSameName(recent[i].path))
====
